---- MODULE Spec2Model ----
(***************************************************************************)
(* A model of the PDF question-answering pipeline: the storage of a        *)
(* collection (vector index + docstore file), the query engines that read  *)
(* it, the multi-collection fan-out, the collection-name derivation, the   *)
(* docstore round trip, the parent summarizer, the batch run over a        *)
(* directory of PDFs, the construction of the chunker, the enrichment of   *)
(* the leaves with its ancestor walk, and the hierarchy the chunker makes  *)
(* of the pages of a PDF.                                                  *)
(*                                                                         *)
(* Environment assumptions: calls on the local vector database succeed     *)
(* unless their precondition fails (get/delete of a missing collection,    *)
(* create of an existing one); file writes, file removals and calls to the *)
(* embedding and completion services may fail at any time.                 *)
(***************************************************************************)
EXTENDS Integers, Sequences, FiniteSets, TLC

VARIABLES
    chroma,   \* the vector database: collection name -> None or a collection
    files,    \* the docstore files: <<directory, collection name>> -> content
    sm,       \* the StorageManager object (its docstore_path)
    ing,      \* the ingestion process running StorageManager.save_collection
    engine,   \* the QueryEngine object (None before construction)
    obs,      \* what the last QueryEngine operation returned to its caller
    mq,       \* the MultiCollectionQueryEngine and its running query
    cn,       \* PDFLoader.get_collection_name: argument and result
    rt,       \* a docstore save/load cycle on its own
    gs,       \* DocumentChunker.generate_parent_summaries: its loop
    bt,       \* a batch run of scripts/process_pdfs.py over a directory
    ck,       \* the construction of a DocumentChunker
    en,       \* DocumentChunker.enrich_leaf_nodes: its loops
    wk,       \* enrich_leaf_nodes, one step per turn of the ancestor walk
    tr        \* DocumentChunker.create_nodes on the pages of a PDF

vars ==
    <<chroma, files, sm, ing, engine, obs, mq, cn, rt, gs, bt, ck, en, wk, tr>>

(***************************************************************************)
(* Bounds of the model.                                                    *)
(***************************************************************************)
MaxRuns == 2      \* ingestion runs in one behaviour
MaxTopK == 4      \* largest similarity_top_k a query is called with

\* settings.SIMILARITY_TOP_K, the similarity_top_k of a query given none
SIMILARITY_TOP_K == 6

(***************************************************************************)
(* Segments.  A node of the hierarchy is a record                          *)
(*   [node_id, text, metadata, relationships]                              *)
(* Node ids are fresh in every run (they are UUIDs): <<run, local name>>.  *)
(***************************************************************************)
Docs == {"A", "B"}

\* The hierarchy the parser yields for each input document: children in
\* document order.  A: three levels, B: two levels.
ShapeChildren(doc) ==
    IF doc = "A"
    THEN [R  |-> <<"P1", "P2", "P3">>,
          P1 |-> <<"a1", "a2">>,
          P2 |-> <<"b1", "b2", "b3">>,
          P3 |-> <<"c1">>,
          a1 |-> <<>>, a2 |-> <<>>, b1 |-> <<>>, b2 |-> <<>>, b3 |-> <<>>,
          c1 |-> <<>>]
    ELSE [S  |-> <<"d1", "d2">>, d1 |-> <<>>, d2 |-> <<>>]

Locals(doc) == DOMAIN ShapeChildren(doc)

\* The number of characters of the text of each node.
ShapeTextLen(doc) ==
    IF doc = "A"
    THEN [R  |-> 3540, P1 |-> 140, P2 |-> 3300, P3 |-> 100,
          a1 |-> 100, a2 |-> 40, b1 |-> 100, b2 |-> 200, b3 |-> 3000,
          c1 |-> 100]
    ELSE [S  |-> 300, d1 |-> 100, d2 |-> 200]

\* A text is a sequence of parts; a part [src, len] is the first len
\* characters of the string named src.  Two texts with the same parts are
\* the same string.
Part(src, len) == [src |-> src, len |-> len]

Range(s) == {s[i] : i \in DOMAIN s}

\* The id that stands for "no node".
NoId == <<0, "none">>

ShapeParent(doc, l) ==
    LET ps == {p \in Locals(doc) : l \in Range(ShapeChildren(doc)[p])}
    IN  IF ps = {} THEN "none" ELSE CHOOSE p \in ps : TRUE

\* The relationships of a node: keys holds "PARENT" / "CHILD" when the node
\* has that relationship; parent and children are its values.
Rel(parent, children) ==
    [keys     |-> (IF parent = NoId THEN {} ELSE {"PARENT"})
                  \cup (IF children = <<>> THEN {} ELSE {"CHILD"}),
     parent   |-> parent,
     children |-> children]

\* One page document: the metadata PDFLoader.load_pdf attaches.
PageMetadata(doc) ==
    [filename |-> doc, page |-> 1, total_pages |-> 1, source_type |-> "pdf"]

MkNode(run, doc, l) ==
    [node_id       |-> <<run, l>>,
     text          |-> <<Part(l, ShapeTextLen(doc)[l])>>,
     metadata      |-> PageMetadata(doc),
     relationships |->
        Rel(IF ShapeParent(doc, l) = "none" THEN NoId
            ELSE <<run, ShapeParent(doc, l)>>,
            [i \in DOMAIN ShapeChildren(doc)[l] |->
                <<run, ShapeChildren(doc)[l][i]>>])]

\* DocumentChunker.create_nodes: all nodes (parents and leaves) of a run.
create_nodes(run, doc) == {MkNode(run, doc, l) : l \in Locals(doc)}

\* get_leaf_nodes of the node parser: the nodes without a CHILD relationship.
get_leaf_nodes(nodes) == {n \in nodes : "CHILD" \notin n.relationships.keys}

HasParent(n) == "PARENT" \in n.relationships.keys
ParentId(n)  == IF HasParent(n) THEN n.relationships.parent ELSE NoId
ChildIds(n)  == IF "CHILD" \in n.relationships.keys
                THEN Range(n.relationships.children) ELSE {}

Ids(nodes) == {n.node_id : n \in nodes}

(***************************************************************************)
(* The docstore on disk.  save_docstore writes {doc_id: node.to_dict()} as *)
(* JSON; load_docstore reads it back with TextNode.from_dict.  A dict is a *)
(* set of <<key, value>> pairs.  to_dict keys the relationships by the     *)
(* value of the NodeRelationship enum ("4" PARENT, "5" CHILD) and turns    *)
(* each related node into a RelatedNodeInfo dict: one for the parent, a    *)
(* list for the children.  json.dump and json.load are inverse on what     *)
(* to_dict yields (string keys, strings, integers, lists, dicts), so a     *)
(* file that was written completely holds the dict itself.                 *)
(***************************************************************************)
RelatedNodeInfo(id) ==
    [node_id |-> id, node_type |-> "1", class_name |-> "RelatedNodeInfo"]

to_dict_without_children(n) ==
    [id_           |-> n.node_id,
     text          |-> n.text,
     metadata      |-> n.metadata,
     relationships |->
        (IF "PARENT" \in n.relationships.keys
         THEN {<<"4", <<RelatedNodeInfo(n.relationships.parent)>>>>}
         ELSE {}),
     class_name    |-> "TextNode"]

to_dict(n) ==
    [id_           |-> n.node_id,
     text          |-> n.text,
     metadata      |-> n.metadata,
     relationships |->
        (IF "PARENT" \in n.relationships.keys
         THEN {<<"4", <<RelatedNodeInfo(n.relationships.parent)>>>>}
         ELSE {})
        \cup
        (IF "CHILD" \in n.relationships.keys
         THEN {<<"5", [i \in DOMAIN n.relationships.children |->
                          RelatedNodeInfo(n.relationships.children[i])]>>}
         ELSE {}),
     class_name    |-> "TextNode"]

DictKeys(d) == {p[1] : p \in d}
DictGet(d, k) == (CHOOSE p \in d : p[1] = k)[2]

from_dict(d) ==
    [node_id       |-> d.id_,
     text          |-> d.text,
     metadata      |-> d.metadata,
     relationships |->
        [keys     |-> {IF k = "4" THEN "PARENT" ELSE "CHILD" :
                          k \in DictKeys(d.relationships)},
         parent   |-> IF "4" \in DictKeys(d.relationships)
                      THEN DictGet(d.relationships, "4")[1].node_id
                      ELSE NoId,
         children |-> IF "5" \in DictKeys(d.relationships)
                      THEN [i \in DOMAIN DictGet(d.relationships, "5") |->
                               DictGet(d.relationships, "5")[i].node_id]
                      ELSE <<>>]]

\* SimpleDocumentStore.add_documents on a fresh store: the nodes by id.
\* A docstore is the set of its nodes (node ids are unique in a run).
add_documents(nodes) == nodes

\* The docs_dict save_docstore builds (lines 70-72).
DocsDict(docstore) == {<<n.node_id, to_dict(n)>> : n \in docstore}

\* The store load_docstore rebuilds from a docs_dict (lines 104-112).
NodesOfDict(docs_dict) == {from_dict(p[2]) : p \in docs_dict}

AbsentFile  == [state |-> "absent",  docs |-> {}]
CorruptFile == [state |-> "corrupt", docs |-> {}]
OkFile(docs_dict) == [state |-> "ok", docs |-> docs_dict]

(***************************************************************************)
(* Places on disk.  settings.DOCSTORE_PATH (data/docstore) is where a      *)
(* StorageManager keeps its docstores unless it is given another           *)
(* directory; query_engine.get_docstore_path reads                         *)
(* settings.CHROMA_DB_PATH / "docstores".                                  *)
(***************************************************************************)
DOCSTORE_PATH      == "data/docstore"
CHROMA_DOCSTORES   == "data/chroma_db/docstores"
Dirs               == {DOCSTORE_PATH, CHROMA_DOCSTORES}
CollectionNames    == {"c1", "c2"}

\* StorageManager.get_docstore_path
get_docstore_path(collection_name) == <<sm.docstore_path, collection_name>>

\* query_engine.get_docstore_path
qe_get_docstore_path(collection_name) == <<CHROMA_DOCSTORES, collection_name>>

(***************************************************************************)
(* The text of an enriched leaf.  DocumentChunker.enrich_leaf_nodes walks  *)
(* from a leaf up its PARENT relationships and puts the summaries of the   *)
(* ancestors it finds, outermost first, in front of the leaf's text.       *)
(***************************************************************************)
\* The characters of the node text put in the prompt (line 88) and kept by
\* the fallback summary (line 97).
PROMPT_CHARS == 3000
FALLBACK_CHARS == 150

\* text[:k]
RECURSIVE Prefix(_, _)
Prefix(text, k) ==
    IF text = <<>> \/ k <= 0 THEN <<>>
    ELSE IF Head(text).len <= k
         THEN <<Head(text)>> \o Prefix(Tail(text), k - Head(text).len)
         ELSE <<Part(Head(text).src, k)>>

Ellipsis == Part("...", 3)

IsParent(n) == "CHILD" \in n.relationships.keys

\* line 127: the first node of the list with this id, if any
FindNode(nodes, id) ==
    LET at == {i \in DOMAIN nodes : nodes[i].node_id = id}
    IN  IF at = {} THEN [found |-> FALSE, at |-> 0]
        ELSE [found |-> TRUE,
              at |-> CHOOSE i \in at : \A j \in at : i <= j]

\* lines 129-130: what a found parent adds to the chain
chain_entry_default(parent_summaries, id) ==
    <<IF id \in DOMAIN parent_summaries THEN parent_summaries[id]
      ELSE <<>> >>

chain_entry(parent_summaries, id) ==
    IF id \in DOMAIN parent_summaries THEN <<parent_summaries[id]>>
    ELSE <<>>

\* line 130: hierarchy_chain.insert(0, ...)
chain_append(chain, entries) == chain \o entries

chain_insert(chain, entries) == entries \o chain

\* A walk that gives up its chain at a parent that is not in the list.
RECURSIVE walk_up_reset(_, _, _, _)
walk_up_reset(nodes, parent_summaries, current, chain) ==
    IF ~HasParent(current) THEN chain
    ELSE LET parent_id == current.relationships.parent
             parent == FindNode(nodes, parent_id)
         IN  IF ~parent.found THEN <<>>
             ELSE walk_up_reset(nodes, parent_summaries, nodes[parent.at],
                                chain_insert(chain,
                                    chain_entry(parent_summaries,
                                                parent_id)))

\* lines 121-134: the walk up the parent chain
RECURSIVE walk_up(_, _, _, _)
walk_up(nodes, parent_summaries, current, chain) ==
    IF ~HasParent(current) THEN chain
    ELSE LET parent_id == current.relationships.parent
             parent == FindNode(nodes, parent_id)
         IN  IF ~parent.found THEN chain
             ELSE walk_up(nodes, parent_summaries, nodes[parent.at],
                          chain_insert(chain,
                              chain_entry(parent_summaries, parent_id)))

ContextOpen == Part("[CONTEXT: ", 10)
ContextClose == Part("]\n\n", 3)

\* The separator of line 138: a space, the arrow U+2192 and a space.
Arrow == Part(" -> ", 3)

\* line 138: the chain joined by the separator
RECURSIVE join(_)
join(chain) ==
    IF chain = <<>> THEN <<>>
    ELSE IF Len(chain) = 1 THEN chain[1]
    ELSE chain[1] \o <<Arrow>> \o join(Tail(chain))

\* lines 137-141
enriched_content_bracketed(chain, leaf) ==
    <<ContextOpen>> \o join(chain) \o <<ContextClose>> \o leaf.text

enriched_content(chain, leaf) ==
    IF chain # <<>>
    THEN <<ContextOpen>> \o join(chain) \o <<ContextClose>> \o leaf.text
    ELSE leaf.text

\* lines 145 and 155: the node made by TextNode(...) has an id of its own,
\* which line 155 replaces.
enriched_node_id_fresh(leaf) == <<0, "fresh">>

enriched_node_id(leaf) == leaf.node_id

\* lines 119-157: the enriched node of one leaf
enriched_node(nodes, parent_summaries, leaf) ==
    LET hierarchy_chain == walk_up(nodes, parent_summaries, leaf, <<>>)
    IN  [node_id       |-> enriched_node_id(leaf),
         text          |-> enriched_content(hierarchy_chain, leaf),
         metadata      |->
            [filename         |-> leaf.metadata.filename,
             page             |-> leaf.metadata.page,
             total_pages      |-> leaf.metadata.total_pages,
             source_type      |-> leaf.metadata.source_type,
             hierarchy_depth  |-> Len(hierarchy_chain),
             has_context      |-> Len(hierarchy_chain) > 0,
             original_node_id |-> leaf.node_id],
         relationships |-> leaf.relationships]

(***************************************************************************)
(* The vector database.  A collection has a uid (a new one each time it is *)
(* created, so a handle on a deleted collection does not reach the one     *)
(* created later under the same name) and entries: the indexed leaves,     *)
(* each with its id and the id of its parent.                              *)
(***************************************************************************)
NoCollection == [exists |-> FALSE, uid |-> 0, entries |-> {}]
NewCollection(uid) == [exists |-> TRUE, uid |-> uid, entries |-> {}]

IndexEntry(n) ==
    [node_id |-> n.node_id, parent |-> ParentId(n), text |-> n.text]

\* StorageManager.collection_exists
collection_exists(collection_name) == chroma[collection_name].exists

\* The list create_nodes returned: the nodes in some order.
RECURSIVE node_list(_)
node_list(nodes) ==
    IF nodes = {} THEN <<>>
    ELSE LET n == CHOOSE m \in nodes : TRUE
         IN  <<n>> \o node_list(nodes \ {n})

\* The summaries generate_parent_summaries yields for the nodes when no
\* completion succeeds: for every parent the fallback of line 97.
parent_summaries_of(nodes) ==
    [id \in Ids({n \in nodes : IsParent(n)}) |->
        Prefix((CHOOSE n \in nodes : n.node_id = id).text, FALLBACK_CHARS)
            \o <<Ellipsis>>]

\* DocumentChunker.enrich_leaf_nodes on the nodes of a run: one enriched
\* node per leaf.
enriched_leaf_nodes(nodes) ==
    {enriched_node(node_list(nodes), parent_summaries_of(nodes), leaf) :
        leaf \in get_leaf_nodes(nodes)}

(***************************************************************************)
(* Auto-merging retrieval: the merge rule and the deduplication of the     *)
(* retriever the query engine builds.  Units are node ids; store is the    *)
(* docstore of the engine.                                                 *)
(***************************************************************************)
NodeOf(store, id) == CHOOSE n \in store : n.node_id = id

UnitParent(store, u) == ParentId(NodeOf(store, u))

\* Simple majority: the fraction k/n is strictly above one half.
MeetsThreshold(k, n) == 2 * k > n

\* The parents that one pass promotes: those with enough of their children
\* among the units.
Promoted(store, units) ==
    {p \in ({UnitParent(store, u) : u \in units} \ {NoId}) \cap Ids(store) :
        MeetsThreshold(Cardinality({u \in units : UnitParent(store, u) = p}),
                       Len(NodeOf(store, p).relationships.children))}

\* One pass: the retrieved children of each promoted parent are replaced by
\* the parent.
PromotePass(store, units) ==
    LET promoted == Promoted(store, units)
    IN  {u \in units : UnitParent(store, u) \notin promoted} \cup promoted

\* The rule applied once only.
MergeOnce(store, units) == PromotePass(store, units)

\* The rule re-applied one level up until no parent meets the threshold.
RECURSIVE MergeUp(_, _)
MergeUp(store, units) ==
    LET next == PromotePass(store, units)
    IN  IF next = units THEN units ELSE MergeUp(store, next)

RECURSIVE Ancestors(_, _)
Ancestors(store, id) ==
    IF id \notin Ids(store) \/ UnitParent(store, id) = NoId THEN {}
    ELSE {UnitParent(store, id)} \cup Ancestors(store, UnitParent(store, id))

\* Only the highest unit of a branch is kept.
DedupKeepAll(store, units) == units

Dedup(store, units) ==
    {u \in units : Ancestors(store, u) \cap units = {}}

auto_merge(store, retrieved_ids) == Dedup(store, MergeUp(store, retrieved_ids))

(***************************************************************************)
(* QueryEngine.                                                            *)
(***************************************************************************)
NoEngine ==
    [made |-> FALSE, collection_name |-> "", uid |-> 0,
     use_auto_merging |-> FALSE, has_docstore |-> FALSE, docstore |-> {}]

NoMessage == [collection |-> "", available |-> {}]

NoObs ==
    [op |-> "none", name |-> "", window |-> FALSE, outcome |-> "none",
     retrieved |-> {}, units |-> {}, used_retriever |-> "none",
     message |-> NoMessage]

\* QueryEngine.list_collections (lines 158-159)
list_collections == {c \in CollectionNames : chroma[c].exists}

\* The text of the ValueError of lines 72-75: the name asked for and the
\* names list_collections returns.
not_found_message_bare(c) == [collection |-> c, available |-> {}]

not_found_message(c) ==
    [collection |-> c, available |-> list_collections]

\* query_engine.load_docstore: None when the file is not there.
qe_load_docstore(collection_name) ==
    LET f == files[qe_get_docstore_path(collection_name)]
    IN  [found |-> f.state # "absent", readable |-> f.state = "ok",
         nodes |-> NodesOfDict(f.docs)]

\* The rebuild window of a collection: StorageManager.save_collection has
\* deleted the collection that was there and has not yet completed.
InWindow(collection_name) ==
    /\ ing.name = collection_name
    /\ ing.replaced
    /\ ing.pc \in {"unlink", "create", "docstore", "index"}

\* The outcomes of the similarity search: the k nearest entries, whichever
\* they are (all entries when there are fewer than k).
TopK(entries, k) ==
    {r \in SUBSET entries :
        Cardinality(r) = IF Cardinality(entries) < k
                         THEN Cardinality(entries) ELSE k}

\* Which retriever query() builds (lines 126-144).
UsesStandardRetriever(eng) == FALSE

UsesAutoMergingRetriever(eng) == eng.use_auto_merging /\ eng.has_docstore

\* The use_auto_merging flag after __init__ (lines 57 and 84-89): the
\* request, reset when no docstore was loaded.
FlagKeepsRequest(want, found) == want

FlagAfterInit(want, found) == want /\ found

\* QueryEngine.__init__ (lines 46-110)
QueryEngine_init(c, want) ==
    LET d == qe_load_docstore(c) IN
    /\ IF ~chroma[c].exists
       THEN \* get_collection raises: ValueError, no engine
            /\ engine' = NoEngine
            /\ obs' = [NoObs EXCEPT !.op = "init", !.name = c,
                          !.window = InWindow(c),
                          !.outcome = "CollectionNotFound",
                          !.message = not_found_message(c)]
       ELSE IF want /\ d.found /\ ~d.readable
       THEN \* json.load raises out of the constructor
            /\ engine' = NoEngine
            /\ obs' = [NoObs EXCEPT !.op = "init", !.name = c,
                          !.window = InWindow(c),
                          !.outcome = "DocstoreUnreadable"]
       ELSE /\ engine' =
                [made |-> TRUE, collection_name |-> c,
                 uid |-> chroma[c].uid,
                 use_auto_merging |-> FlagAfterInit(want, d.found),
                 has_docstore |-> want /\ d.found,
                 docstore |-> IF want /\ d.found THEN d.nodes ELSE {}]
            /\ obs' = [NoObs EXCEPT !.op = "init", !.name = c,
                          !.window = InWindow(c), !.outcome = "ok"]
    /\ UNCHANGED <<chroma, files, sm, ing, mq, cn, rt, gs, bt, ck, en, wk, tr>>

\* QueryEngine.query (lines 112-149)
query(k) ==
    LET c == engine.collection_name IN
    /\ engine.made
    /\ IF ~chroma[c].exists \/ chroma[c].uid # engine.uid
       THEN \* the collection of the engine's handle is gone
            obs' = [NoObs EXCEPT !.op = "query", !.name = c,
                       !.window = InWindow(c),
                       !.outcome = "IndexUnavailable"]
       ELSE \E r \in TopK(chroma[c].entries, k) :
            LET ids == {e.node_id : e \in r} IN
            IF UsesAutoMergingRetriever(engine)
            THEN IF ids \subseteq Ids(engine.docstore)
                 THEN obs' = [op |-> "query", name |-> c,
                              window |-> InWindow(c), outcome |-> "ok",
                              retrieved |-> ids,
                              units |-> auto_merge(engine.docstore, ids),
                              used_retriever |-> "auto_merging",
                              message |-> NoMessage]
                 ELSE \* a retrieved node is not in the docstore
                      obs' = [NoObs EXCEPT !.op = "query", !.name = c,
                                 !.window = InWindow(c),
                                 !.retrieved = ids,
                                 !.used_retriever = "auto_merging",
                                 !.outcome = "NodeNotInDocstore"]
            ELSE obs' = [op |-> "query", name |-> c,
                         window |-> InWindow(c), outcome |-> "ok",
                         retrieved |-> ids, units |-> ids,
                         used_retriever |-> "standard",
                         message |-> NoMessage]
    /\ UNCHANGED <<chroma, files, sm, ing, engine, mq, cn, rt, gs, bt, ck, en,
                   wk, tr>>

(***************************************************************************)
(* StorageManager.save_collection, one step per effect on the database or  *)
(* on the disk.                                                            *)
(***************************************************************************)
IdleIng ==
    [pc |-> "idle", name |-> "", doc |-> "", run |-> 0, ret |-> "none",
     replaced |-> FALSE,
     before |-> [collection |-> NoCollection, file |-> AbsentFile]]

\* What process_documents returns (chunker.py lines 180-190): the nodes of
\* the run and their enriched leaves.  enrich_leaf_nodes makes new nodes; it
\* does not write the enriched text into the leaves it was given.
all_nodes_overwritten ==
    LET nodes == create_nodes(ing.run, ing.doc)
    IN  {IF IsParent(n) THEN n
         ELSE [n EXCEPT !.text =
                  enriched_node(node_list(nodes),
                                parent_summaries_of(nodes), n).text] :
           n \in nodes}

all_nodes == create_nodes(ing.run, ing.doc)
enriched_nodes == enriched_leaf_nodes(all_nodes)

\* The caller has processed a document and calls save_collection.
save_collection_call(c, d) ==
    /\ ing.pc = "idle"
    /\ ing.run < MaxRuns
    /\ ing' = [pc |-> "exists", name |-> c, doc |-> d, run |-> ing.run + 1,
               ret |-> "none", replaced |-> FALSE,
               before |-> [collection |-> chroma[c],
                           file |-> files[get_docstore_path(c)]]]
    /\ UNCHANGED <<chroma, files, sm, engine, obs, mq, cn, rt, gs, bt, ck, en,
                   wk, tr>>

\* lines 182-183 and delete_collection lines 143-144
delete_collection_chroma ==
    /\ ing.pc = "exists"
    /\ IF collection_exists(ing.name)
       THEN /\ chroma' = [chroma EXCEPT ![ing.name] = NoCollection]
            /\ ing' = [ing EXCEPT !.pc = "unlink", !.replaced = TRUE]
       ELSE /\ ing' = [ing EXCEPT !.pc = "create"]
            /\ UNCHANGED chroma
    /\ UNCHANGED <<files, sm, engine, obs, mq, cn, rt, gs, bt, ck, en, wk, tr>>

\* delete_collection lines 148-157: the file is removed, or the removal
\* fails and delete_collection returns False, which save_collection ignores.
delete_collection_unlink ==
    /\ ing.pc = "unlink"
    /\ \E ok \in BOOLEAN :
        files' = IF ok /\ files[get_docstore_path(ing.name)].state # "absent"
                 THEN [files EXCEPT ![get_docstore_path(ing.name)] = AbsentFile]
                 ELSE files
    /\ ing' = [ing EXCEPT !.pc = "create"]
    /\ UNCHANGED <<chroma, sm, engine, obs, mq, cn, rt, gs, bt, ck, en, wk, tr>>

\* line 186: create_collection raises when the name exists
create_collection ==
    /\ ing.pc = "create"
    /\ IF chroma[ing.name].exists
       THEN /\ ing' = [ing EXCEPT !.pc = "idle", !.ret = "False"]
            /\ UNCHANGED chroma
       ELSE /\ chroma' = [chroma EXCEPT ![ing.name] = NewCollection(ing.run)]
            /\ ing' = [ing EXCEPT !.pc = "docstore"]
    /\ UNCHANGED <<files, sm, engine, obs, mq, cn, rt, gs, bt, ck, en, wk, tr>>

\* save_docstore (lines 55-85): the file after the call.  The write either
\* completes, or open() fails and the file is as before, or the dump fails
\* part-way and leaves a truncated file.
FileAfterSave(outcome, old, docstore) ==
    IF outcome = "ok" THEN OkFile(DocsDict(docstore))
    ELSE IF outcome = "open_failed" THEN old
    ELSE CorruptFile

SaveOutcomes == {"ok", "open_failed", "dump_failed"}

\* lines 190-194: the result of save_docstore is not looked at
save_docstore ==
    /\ ing.pc = "docstore"
    /\ \E outcome \in SaveOutcomes :
        files' = [files EXCEPT ![get_docstore_path(ing.name)] =
                    FileAfterSave(outcome, @, add_documents(all_nodes))]
    /\ ing' = [ing EXCEPT !.pc = "index"]
    /\ UNCHANGED <<chroma, sm, engine, obs, mq, cn, rt, gs, bt, ck, en, wk, tr>>

\* lines 197-219: the index is built from the enriched nodes and True is
\* returned, or embedding fails and False is returned
build_index ==
    /\ ing.pc = "index"
    /\ \E ok \in BOOLEAN :
        IF ok
        THEN /\ chroma' = [chroma EXCEPT ![ing.name].entries =
                              {IndexEntry(n) : n \in enriched_nodes}]
             /\ ing' = [ing EXCEPT !.pc = "idle", !.ret = "True"]
        ELSE /\ ing' = [ing EXCEPT !.pc = "idle", !.ret = "False"]
             /\ UNCHANGED chroma
    /\ UNCHANGED <<files, sm, engine, obs, mq, cn, rt, gs, bt, ck, en, wk, tr>>

(***************************************************************************)
(* The specification of storage and query: an ingestion process and a      *)
(* query process on the same database and disk.                            *)
(***************************************************************************)
IdleMq ==
    [pc |-> "off", engines |-> <<>>, op |-> "none", i |-> 1,
     queried |-> <<>>, raised |-> <<>>, results |-> <<>>,
     best |-> <<"", <<>>>>]
IdleCn == [pc |-> "off", pdf_path |-> <<>>, result |-> <<>>, second |-> <<>>]
IdleRt ==
    [pc |-> "off", docstore |-> {}, file |-> [state |-> "absent", docs |-> {}],
     saved |-> "none", loaded |-> [found |-> FALSE, nodes |-> {}]]
IdleGs ==
    [pc |-> "off", nodes |-> <<>>, parent_nodes |-> <<>>, i |-> 1,
     prompted |-> <<>>, failed |-> {}, completed |-> <<>>,
     summaries |-> <<>>]

IdleWk == [pc |-> "off"]
IdleTr == [pc |-> "off"]
IdleBt == [pc |-> "off"]
IdleCk == [pc |-> "off"]
IdleEn == [pc |-> "off"]

Init ==
    /\ chroma = [c \in CollectionNames |-> NoCollection]
    /\ files = [f \in Dirs \X CollectionNames |-> AbsentFile]
    /\ sm \in {[docstore_path |-> d] : d \in Dirs}
    /\ ing = IdleIng
    /\ engine = NoEngine
    /\ obs = NoObs
    /\ mq = IdleMq /\ cn = IdleCn /\ rt = IdleRt /\ gs = IdleGs
    /\ wk = IdleWk /\ tr = IdleTr
    /\ bt = IdleBt /\ ck = IdleCk /\ en = IdleEn

Next ==
    \/ \E c \in CollectionNames, d \in Docs : save_collection_call(c, d)
    \/ delete_collection_chroma
    \/ delete_collection_unlink
    \/ create_collection
    \/ save_docstore
    \/ build_index
    \/ \E c \in CollectionNames, want \in BOOLEAN : QueryEngine_init(c, want)
    \/ query(SIMILARITY_TOP_K)

Spec == Init /\ [][Next]_vars

(***************************************************************************)
(* The specification of retrieval: the database and the disk are as one    *)
(* completed save_collection run on "c1" leaves them (whatever the         *)
(* document, the docstore directory of the StorageManager and the outcome  *)
(* of the docstore write), and engines are built and queried with every    *)
(* similarity_top_k up to MaxTopK.                                         *)
(***************************************************************************)
InitQuery ==
    \E d \in Docs, dir \in Dirs, outcome \in SaveOutcomes :
        /\ sm = [docstore_path |-> dir]
        /\ ing = [pc |-> "idle", name |-> "c1", doc |-> d, run |-> 1,
                  ret |-> "True", replaced |-> FALSE,
                  before |-> [collection |-> NoCollection,
                              file |-> AbsentFile]]
        /\ chroma = [c \in CollectionNames |->
                        IF c = "c1"
                        THEN [exists |-> TRUE, uid |-> 1,
                              entries |-> {IndexEntry(n) : n \in
                                  enriched_leaf_nodes(create_nodes(1, d))}]
                        ELSE NoCollection]
        /\ files = [f \in Dirs \X CollectionNames |->
                        IF f = <<dir, "c1">>
                        THEN FileAfterSave(outcome, AbsentFile,
                                           add_documents(create_nodes(1, d)))
                        ELSE AbsentFile]
        /\ engine = NoEngine
        /\ obs = NoObs
        /\ mq = IdleMq /\ cn = IdleCn /\ rt = IdleRt /\ gs = IdleGs
        /\ wk = IdleWk /\ tr = IdleTr
        /\ bt = IdleBt /\ ck = IdleCk /\ en = IdleEn

NextQuery ==
    \/ \E c \in CollectionNames, want \in BOOLEAN : QueryEngine_init(c, want)
    \/ \E k \in 1..MaxTopK : query(k)

SpecQuery == InitQuery /\ [][NextQuery]_vars

(***************************************************************************)
(* MultiCollectionQueryEngine.  self.engines is a dict, iterated in the    *)
(* order its names were given; a text is a sequence of characters.  The    *)
(* query of one engine returns an answer or raises an exception e, of      *)
(* which str(e) is kept.                                                   *)
(***************************************************************************)
MultiNames == {"c1", "c2", "c3"}

ErrorPrefix == <<"E", "r", "r", "o", "r", ":", " ">>

Answers ==
    {<<>>,
     <<"n", "o">>,
     <<"a", " ", "l", "o", "n", "g", "e", "r", " ", "a", "n", "s", "w",
       "e", "r">>}

Messages == {<<"x">>, <<"t", "i", "m", "e", "d", " ", "o", "u", "t">>}

Outcomes ==
    {[ok |-> TRUE, text |-> a] : a \in Answers}
        \cup {[ok |-> FALSE, text |-> m] : m \in Messages}

\* The lists of distinct names an engine can be built on.
NameLists ==
    {ns \in UNION {[1..n -> MultiNames] : n \in 1..Cardinality(MultiNames)} :
        \A i, j \in DOMAIN ns : i # j => ns[i] # ns[j]}

EmptyResults == [n \in {} |-> <<>>]

\* lines 215-219: the entry of one collection
results_after_pass(results, name, outcome) ==
    IF outcome.ok THEN (name :> outcome.text) @@ results ELSE results

results_after(results, name, outcome) ==
    (name :> (IF outcome.ok THEN outcome.text
              ELSE ErrorPrefix \o outcome.text)) @@ results

\* line 238: max(results.keys(), key=len of the entry); max returns the
\* first of the maximal keys in the order of the dict
first_collection(results, order) == order[1]

best_collection(results, order) ==
    LET maximal(i) == \A j \in DOMAIN order :
                          Len(results[order[j]]) <= Len(results[order[i]])
    IN  order[CHOOSE i \in DOMAIN order :
                  maximal(i) /\ \A j \in 1..(i - 1) : ~maximal(j)]

\* The caller calls query or query_best (query_best starts with query).
mc_call(op) ==
    /\ mq.pc = "ready"
    /\ mq' = [mq EXCEPT !.pc = "loop", !.op = op]
    /\ UNCHANGED <<chroma, files, sm, ing, engine, obs, cn, rt, gs, bt, ck, en,
                   wk, tr>>

\* MultiCollectionQueryEngine.query, lines 214-219: one turn of the loop
mc_query_step ==
    /\ mq.pc = "loop"
    /\ mq.i <= Len(mq.engines)
    /\ \E outcome \in Outcomes :
        mq' = [mq EXCEPT
                 !.i = @ + 1,
                 !.queried = Append(@, mq.engines[mq.i]),
                 !.raised = IF outcome.ok THEN @
                            ELSE (mq.engines[mq.i] :> outcome.text) @@ @,
                 !.results = results_after(@, mq.engines[mq.i], outcome)]
    /\ UNCHANGED <<chroma, files, sm, ing, engine, obs, cn, rt, gs, bt, ck, en,
                   wk, tr>>

\* line 221: query returns the results
mc_query_return ==
    /\ mq.pc = "loop"
    /\ mq.i > Len(mq.engines)
    /\ mq' = [mq EXCEPT !.pc = IF mq.op = "query" THEN "done" ELSE "best"]
    /\ UNCHANGED <<chroma, files, sm, ing, engine, obs, cn, rt, gs, bt, ck, en,
                   wk, tr>>

\* MultiCollectionQueryEngine.query_best, lines 236-240
query_best ==
    /\ mq.pc = "best"
    /\ LET InResults(n) == n \in DOMAIN mq.results
           keys == SelectSeq(mq.queried, InResults)
           best == best_collection(mq.results, keys)
       IN  mq' = [mq EXCEPT !.pc = "done",
                            !.best = <<best, mq.results[best]>>]
    /\ UNCHANGED <<chroma, files, sm, ing, engine, obs, cn, rt, gs, bt, ck, en,
                   wk, tr>>

\* The engine after MultiCollectionQueryEngine.__init__ (lines 188-197).
InitMulti ==
    /\ mq \in {[pc |-> "ready", engines |-> ns, op |-> "none", i |-> 1,
                queried |-> <<>>, raised |-> EmptyResults,
                results |-> EmptyResults, best |-> <<"", <<>>>>] :
                  ns \in NameLists}
    /\ chroma = [c \in CollectionNames |-> NoCollection]
    /\ files = [f \in Dirs \X CollectionNames |-> AbsentFile]
    /\ sm = [docstore_path |-> DOCSTORE_PATH]
    /\ ing = IdleIng /\ engine = NoEngine /\ obs = NoObs
    /\ cn = IdleCn /\ rt = IdleRt /\ gs = IdleGs
    /\ wk = IdleWk /\ tr = IdleTr
    /\ bt = IdleBt /\ ck = IdleCk /\ en = IdleEn

NextMulti ==
    \/ \E op \in {"query", "query_best"} : mc_call(op)
    \/ mc_query_step
    \/ mc_query_return
    \/ query_best

SpecMulti == InitMulti /\ [][NextMulti]_vars

(***************************************************************************)
(* PDFLoader.get_collection_name.  A filename is a sequence of characters  *)
(* of these kinds: "A" an ASCII capital, "b" an ASCII small letter, "7" a  *)
(* digit, "_", "!" a punctuation mark, "." and "I_DOT", the capital I with *)
(* dot above (U+0130), a letter whose lower case is two characters: "i"    *)
(* and the combining dot above (U+0307, "DOT_ABOVE"), which is no letter.  *)
(***************************************************************************)
MaxNameLen == 4

Chars == {"A", "b", "7", "_", "!", ".", "I_DOT"}

\* str.isalnum of one character
isalnum(c) == c \in {"A", "a", "b", "7", "I_DOT", "i"}

\* str.lower of one character
lower_char(c) ==
    IF c = "A" THEN <<"a">>
    ELSE IF c = "I_DOT" THEN <<"i", "DOT_ABOVE">>
    ELSE <<c>>

\* str.lower
RECURSIVE lower(_)
lower(str) ==
    IF str = <<>> THEN <<>> ELSE lower_char(Head(str)) \o lower(Tail(str))

\* Path.stem: the name without its last suffix; a name that starts with its
\* only dot, or ends with a dot, has no suffix.
stem(name) ==
    LET dots == {i \in DOMAIN name : name[i] = "."}
        last == CHOOSE i \in dots : \A j \in dots : j <= i
    IN  IF dots # {} /\ 1 < last /\ last < Len(name)
        THEN SubSeq(name, 1, last - 1)
        ELSE name

\* The names of files: not empty, and not "." or "..", which name
\* directories.
Filenames ==
    UNION {[1..n -> Chars] : n \in 1..MaxNameLen} \ {<<".">>, <<".", ".">>}

\* PDFLoader.get_collection_name (lines 35-38)
get_collection_name(pdf_path) ==
    LET name == stem(pdf_path)
        collection_name ==
            [i \in DOMAIN name |->
                IF isalnum(name[i]) \/ name[i] = "_" THEN name[i] ELSE "_"]
    IN  lower(collection_name)

call_get_collection_name ==
    /\ cn.pc = "ready"
    /\ cn' = [cn EXCEPT !.pc = "done",
                        !.result = get_collection_name(cn.pdf_path)]
    /\ UNCHANGED <<chroma, files, sm, ing, engine, obs, mq, rt, gs, bt, ck, en,
                   wk, tr>>

\* A second call on the same path.
call_again ==
    /\ cn.pc = "done"
    /\ cn' = [cn EXCEPT !.pc = "twice",
                        !.second = get_collection_name(cn.pdf_path)]
    /\ UNCHANGED <<chroma, files, sm, ing, engine, obs, mq, rt, gs, bt, ck, en,
                   wk, tr>>

InitName ==
    /\ cn \in {[pc |-> "ready", pdf_path |-> f, result |-> <<>>,
                second |-> <<>>] : f \in Filenames}
    /\ chroma = [c \in CollectionNames |-> NoCollection]
    /\ files = [f \in Dirs \X CollectionNames |-> AbsentFile]
    /\ sm = [docstore_path |-> DOCSTORE_PATH]
    /\ ing = IdleIng /\ engine = NoEngine /\ obs = NoObs
    /\ mq = IdleMq /\ rt = IdleRt /\ gs = IdleGs
    /\ wk = IdleWk /\ tr = IdleTr
    /\ bt = IdleBt /\ ck = IdleCk /\ en = IdleEn

NextName == call_get_collection_name \/ call_again

SpecName == InitName /\ [][NextName]_vars

(***************************************************************************)
(* A docstore save/load cycle of a StorageManager: save_docstore on a      *)
(* docstore of up to MaxStoreSize nodes, then load_docstore.               *)
(***************************************************************************)
MaxStoreSize == 3

NodePool == create_nodes(1, "A") \cup create_nodes(1, "B")

Docstores == {ns \in SUBSET NodePool : Cardinality(ns) <= MaxStoreSize}

\* What is at the path before the save: nothing, or the file of an
\* earlier run.
EarlierFiles == {AbsentFile, OkFile(DocsDict(create_nodes(0, "B")))}

\* StorageManager.load_docstore (lines 97-121): None when the file is not
\* there or cannot be read.
sm_load_docstore(file) ==
    IF file.state = "ok"
    THEN [found |-> TRUE, nodes |-> NodesOfDict(file.docs)]
    ELSE [found |-> FALSE, nodes |-> {}]

\* StorageManager.save_docstore (lines 55-85)
rt_save_docstore ==
    /\ rt.pc = "ready"
    /\ \E outcome \in SaveOutcomes :
        rt' = [rt EXCEPT
                 !.pc = "saved",
                 !.file = FileAfterSave(outcome, @, rt.docstore),
                 !.saved = IF outcome = "ok" THEN "True" ELSE "False"]
    /\ UNCHANGED <<chroma, files, sm, ing, engine, obs, mq, cn, gs, bt, ck, en,
                   wk, tr>>

\* StorageManager.load_docstore (lines 87-121)
rt_load_docstore ==
    /\ rt.pc = "saved"
    /\ rt' = [rt EXCEPT !.pc = "loaded",
                        !.loaded = sm_load_docstore(rt.file)]
    /\ UNCHANGED <<chroma, files, sm, ing, engine, obs, mq, cn, gs, bt, ck, en,
                   wk, tr>>

InitRT ==
    /\ rt \in {[pc |-> "ready", docstore |-> ns, file |-> f,
                saved |-> "none",
                loaded |-> [found |-> FALSE, nodes |-> {}]] :
                  ns \in Docstores, f \in EarlierFiles}
    /\ chroma = [c \in CollectionNames |-> NoCollection]
    /\ files = [f \in Dirs \X CollectionNames |-> AbsentFile]
    /\ sm = [docstore_path |-> DOCSTORE_PATH]
    /\ ing = IdleIng /\ engine = NoEngine /\ obs = NoObs
    /\ mq = IdleMq /\ cn = IdleCn /\ gs = IdleGs
    /\ wk = IdleWk /\ tr = IdleTr
    /\ bt = IdleBt /\ ck = IdleCk /\ en = IdleEn

NextRT == rt_save_docstore \/ rt_load_docstore

SpecRT == InitRT /\ [][NextRT]_vars

(***************************************************************************)
(* DocumentChunker.generate_parent_summaries: one completion call per      *)
(* parent node, in the order of the node list.                             *)
(***************************************************************************)
MaxListLen == 3

Space == Part(" ", 1)

\* str.strip: the text without the white space at its ends
RECURSIVE lstrip(_)
lstrip(text) ==
    IF text # <<>> /\ Head(text) = Space THEN lstrip(Tail(text)) ELSE text

RECURSIVE rstrip(_)
rstrip(text) ==
    IF text # <<>> /\ text[Len(text)] = Space
    THEN rstrip(SubSeq(text, 1, Len(text) - 1)) ELSE text

strip(text) == rstrip(lstrip(text))

\* What llm.complete does on a prompt: it returns a response with one of
\* these texts, or it raises.
Completions ==
    {<<Space, Part("summary one", 11), Space>>,
     <<Part("summary two", 11)>>,
     <<Space>>}

CompletionOutcomes ==
    {[ok |-> TRUE, text |-> t] : t \in Completions}
        \cup {[ok |-> FALSE, text |-> <<>>]}

\* lines 92-97: the entry of one parent node
summaries_after_skip(summaries, node, outcome) ==
    IF outcome.ok THEN (node.node_id :> strip(outcome.text)) @@ summaries
    ELSE summaries

summaries_after_reset(summaries, node, outcome) ==
    IF outcome.ok THEN (node.node_id :> strip(outcome.text)) @@ summaries
    ELSE (node.node_id :> (Prefix(node.text, FALLBACK_CHARS) \o <<Ellipsis>>))

summaries_after(summaries, node, outcome) ==
    (node.node_id :>
        (IF outcome.ok THEN strip(outcome.text)
         ELSE Prefix(node.text, FALLBACK_CHARS) \o <<Ellipsis>>))
    @@ summaries

\* The node lists the summarizer is given: distinct nodes, parents and
\* leaves in any order.
SummaryPool ==
    {MkNode(1, "B", "S"), MkNode(1, "B", "d1"), MkNode(1, "A", "R"),
     MkNode(1, "A", "P2"), MkNode(1, "A", "P3"), MkNode(1, "A", "c1")}

NodeLists ==
    {ns \in UNION {[1..n -> SummaryPool] : n \in 0..MaxListLen} :
        \A i, j \in DOMAIN ns : i # j => ns[i] # ns[j]}

NoSummaries == [n \in {} |-> <<>>]

\* lines 73-80
gps_call ==
    /\ gs.pc = "ready"
    /\ gs' = [gs EXCEPT !.pc = "loop",
                        !.parent_nodes = SelectSeq(gs.nodes, IsParent)]
    /\ UNCHANGED <<chroma, files, sm, ing, engine, obs, mq, cn, rt, bt, ck, en,
                   wk, tr>>

\* lines 82-97: one turn of the loop
gps_step ==
    /\ gs.pc = "loop"
    /\ gs.i <= Len(gs.parent_nodes)
    /\ \E outcome \in CompletionOutcomes :
        gs' = [gs EXCEPT
                 !.i = @ + 1,
                 !.prompted = Append(@,
                     Prefix(gs.parent_nodes[gs.i].text, PROMPT_CHARS)),
                 !.failed = IF outcome.ok THEN @
                            ELSE @ \cup {gs.parent_nodes[gs.i].node_id},
                 !.completed = IF outcome.ok
                               THEN (gs.parent_nodes[gs.i].node_id :>
                                        outcome.text) @@ @
                               ELSE @,
                 !.summaries =
                     summaries_after(@, gs.parent_nodes[gs.i], outcome)]
    /\ UNCHANGED <<chroma, files, sm, ing, engine, obs, mq, cn, rt, bt, ck, en,
                   wk, tr>>

\* lines 76-78 and 99-100
gps_return ==
    /\ gs.pc = "loop"
    /\ gs.i > Len(gs.parent_nodes)
    /\ gs' = [gs EXCEPT !.pc = "done"]
    /\ UNCHANGED <<chroma, files, sm, ing, engine, obs, mq, cn, rt, bt, ck, en,
                   wk, tr>>

InitSum ==
    /\ gs \in {[pc |-> "ready", nodes |-> ns, parent_nodes |-> <<>>,
                i |-> 1, prompted |-> <<>>, failed |-> {},
                completed |-> NoSummaries, summaries |-> NoSummaries] :
                  ns \in NodeLists}
    /\ chroma = [c \in CollectionNames |-> NoCollection]
    /\ files = [f \in Dirs \X CollectionNames |-> AbsentFile]
    /\ sm = [docstore_path |-> DOCSTORE_PATH]
    /\ ing = IdleIng /\ engine = NoEngine /\ obs = NoObs
    /\ mq = IdleMq /\ cn = IdleCn /\ rt = IdleRt
    /\ wk = IdleWk /\ tr = IdleTr
    /\ bt = IdleBt /\ ck = IdleCk /\ en = IdleEn

NextSum == gps_call \/ gps_step \/ gps_return

SpecSum == InitSum /\ [][NextSum]_vars

(***************************************************************************)
(* A batch run: main of scripts/process_pdfs.py over the PDF directory,    *)
(* with PDFLoader.load_all_pdfs and PDFLoader.load_pdf.                     *)
(***************************************************************************)
MaxFiles == 3

\* The file names a directory can hold, in the order sorted() gives them.
PdfNames ==
    <<<<"!", ".", "b">>, <<"7", ".", "b">>, <<"_", ".", "b">>,
      <<"_", "7", ".", "b">>, <<"b", ".", "b">>>>

\* The i-th file name of the directory, in sorted order.
PdfName(i) == PdfNames[i]

\* What a path is when load_pdf gets to it: "missing" (exists() is false),
\* "unreadable" (the reader raises), "empty" (the reader returns no page)
\* or "pages" (the reader returns PagesOfPdf pages).
FileKinds == {"missing", "unreadable", "empty", "pages"}

PagesOfPdf == 2

NoLoad == [raised |-> "none", documents |-> <<>>, collection_name |-> <<>>]

\* lines 65-86: one Document per page
enhanced_docs(pdf_path, n) ==
    [i \in 1..n |->
        [page |-> i, total_pages |-> n, filename |-> pdf_path,
         collection_name |-> get_collection_name(pdf_path),
         source_type |-> "pdf"]]

\* PDFLoader.load_pdf (lines 51-97): what it returns or raises
load_pdf_unchecked(pdf_path, kind) ==
    IF kind = "missing"
    THEN [NoLoad EXCEPT !.raised = "FileNotFoundError"]
    ELSE IF kind = "unreadable"
    THEN [NoLoad EXCEPT !.raised = "ReaderError"]
    ELSE [raised |-> "none",
          documents |->
              enhanced_docs(pdf_path, IF kind = "empty" THEN 0
                                      ELSE PagesOfPdf),
          collection_name |-> get_collection_name(pdf_path)]

load_pdf(pdf_path, kind) ==
    IF kind = "missing"
    THEN [NoLoad EXCEPT !.raised = "FileNotFoundError"]
    ELSE IF kind = "unreadable"
    THEN [NoLoad EXCEPT !.raised = "ReaderError"]
    ELSE IF kind = "empty"
    THEN [NoLoad EXCEPT !.raised = "ValueError"]
    ELSE [raised |-> "none",
          documents |-> enhanced_docs(pdf_path, PagesOfPdf),
          collection_name |-> get_collection_name(pdf_path)]

\* The directory listings: sorted(directory.glob("*.pdf")) with what each
\* path turns out to be.
Listings ==
    UNION {[1..n -> FileKinds] : n \in 0..MaxFiles}

\* load_all_pdfs lines 140-148: the loop state after one load_pdf call
after_load_abort(b, path, res) ==
    IF res.raised = "none"
    THEN [b EXCEPT !.i = @ + 1,
                   !.results = Append(@, [documents |-> res.documents,
                                          collection_name |->
                                              res.collection_name,
                                          pdf_path |-> path])]
    ELSE [b EXCEPT !.pc = "done", !.exit = 1]

after_load(b, path, res) ==
    IF res.raised = "none"
    THEN [b EXCEPT !.i = @ + 1,
                   !.results = Append(@, [documents |-> res.documents,
                                          collection_name |->
                                              res.collection_name,
                                          pdf_path |-> path])]
    ELSE [b EXCEPT !.i = @ + 1, !.load_errors = @ + 1]

\* main lines 115-135 and load_all_pdfs lines 134-138
bt_start ==
    /\ bt.pc = "start"
    /\ bt' = IF ~bt.config_ok \/ ~bt.dir_exists \/ bt.kinds = <<>>
             THEN \* validate_config or get_pdf_files raises ValueError
                  [bt EXCEPT !.pc = "done", !.exit = 1]
             ELSE [bt EXCEPT !.pc = "loading",
                             !.pdf_files =
                                 [i \in DOMAIN bt.kinds |-> PdfName(i)]]
    /\ UNCHANGED <<chroma, files, sm, ing, engine, obs, mq, cn, rt, gs,
                   ck, en, wk, tr>>

\* load_all_pdfs lines 140-148: one turn of the loop
bt_load ==
    /\ bt.pc = "loading"
    /\ bt.i <= Len(bt.pdf_files)
    /\ LET path == bt.pdf_files[bt.i]
           res == load_pdf(path, bt.kinds[bt.i])
       IN  bt' = [after_load(bt, path, res) EXCEPT
                    !.calls = Append(@, [pdf_path |-> path,
                                         kind |-> bt.kinds[bt.i],
                                         result |-> res])]
    /\ UNCHANGED <<chroma, files, sm, ing, engine, obs, mq, cn, rt, gs,
                   ck, en, wk, tr>>

\* load_all_pdfs lines 150-153 and main lines 137-147
bt_loaded ==
    /\ bt.pc = "loading"
    /\ bt.i > Len(bt.pdf_files)
    /\ bt' = IF bt.results = <<>>
             THEN [bt EXCEPT !.pc = "done", !.exit = 1]
             ELSE [bt EXCEPT !.pc = "processing", !.pdf_data = bt.results]
    /\ UNCHANGED <<chroma, files, sm, ing, engine, obs, mq, cn, rt, gs,
                   ck, en, wk, tr>>

\* process_single_pdf returns, or raises before it has touched the
\* database ("raise") or after it has made the collection ("raise_late").
ProcessOutcomes == {"ok", "raise", "raise_late"}

\* process_single_pdf lines 69-76 and 86-93: the collections of the
\* database after the call.  The collection of the name is deleted and made
\* anew; it is indexed when the call returns.
store_after(store, data, outcome) ==
    IF outcome = "raise" THEN store
    ELSE {r \in store : r.collection_name # data.collection_name}
            \cup {[collection_name |-> data.collection_name,
                   pdf_path        |-> data.pdf_path,
                   indexed         |-> outcome = "ok"]}

\* main lines 149-163: one turn of the loop; process_single_pdf returns or
\* raises.  (With the DocumentChunker of chunker.py the call of line 63
\* raises: the method there is named process_documents.)
bt_process ==
    /\ bt.pc = "processing"
    /\ bt.j <= Len(bt.pdf_data)
    /\ \E outcome \in ProcessOutcomes :
        bt' = [bt EXCEPT
                 !.j = @ + 1,
                 !.attempted = Append(@, bt.pdf_data[bt.j].pdf_path),
                 !.raised_at = IF outcome # "ok"
                               THEN @ \cup {bt.pdf_data[bt.j].pdf_path}
                               ELSE @,
                 !.successful = IF outcome = "ok" THEN @ + 1 ELSE @,
                 !.failed = IF outcome # "ok" THEN @ + 1 ELSE @,
                 !.store = store_after(@, bt.pdf_data[bt.j], outcome),
                 !.ingested = IF outcome = "ok"
                              THEN @ \cup {bt.pdf_data[bt.j].pdf_path}
                              ELSE @]
    /\ UNCHANGED <<chroma, files, sm, ing, engine, obs, mq, cn, rt, gs,
                   ck, en, wk, tr>>

\* main lines 165-184: the summary and the exit code
bt_summary ==
    /\ bt.pc = "processing"
    /\ bt.j > Len(bt.pdf_data)
    /\ bt' = [bt EXCEPT !.pc = "done", !.summary = TRUE,
                        !.exit = IF bt.failed = 0 THEN 0 ELSE 1]
    /\ UNCHANGED <<chroma, files, sm, ing, engine, obs, mq, cn, rt, gs,
                   ck, en, wk, tr>>

InitBatch ==
    /\ bt \in {[pc |-> "start", config_ok |-> ok, dir_exists |-> de,
                kinds |-> ks, pdf_files |-> <<>>, i |-> 1,
                results |-> <<>>, load_errors |-> 0, calls |-> <<>>,
                pdf_data |-> <<>>, j |-> 1, attempted |-> <<>>,
                raised_at |-> {}, successful |-> 0, failed |-> 0,
                store |-> {}, ingested |-> {},
                summary |-> FALSE, exit |-> -1] :
                  ok \in BOOLEAN, de \in BOOLEAN, ks \in Listings}
    /\ ~bt.dir_exists => bt.kinds = <<>>
    /\ chroma = [c \in CollectionNames |-> NoCollection]
    /\ files = [f \in Dirs \X CollectionNames |-> AbsentFile]
    /\ sm = [docstore_path |-> DOCSTORE_PATH]
    /\ ing = IdleIng /\ engine = NoEngine /\ obs = NoObs
    /\ mq = IdleMq /\ cn = IdleCn /\ rt = IdleRt /\ gs = IdleGs
    /\ wk = IdleWk /\ tr = IdleTr
    /\ ck = IdleCk /\ en = IdleEn

NextBatch == bt_start \/ bt_load \/ bt_loaded \/ bt_process \/ bt_summary

SpecBatch == InitBatch /\ [][NextBatch]_vars

(***************************************************************************)
(* DocumentChunker.__init__ and create_nodes: the level sizes.             *)
(***************************************************************************)
MaxLevels == 3

\* settings.CHUNK_SIZES with its default
CHUNK_SIZES == <<4096, 1024, 512>>

LevelSizes == {512, 1024, 4096}

\* The chunk_sizes argument: None (given is false) or a list.
ChunkSizeArgs ==
    {[given |-> FALSE, sizes |-> <<>>]}
        \cup {[given |-> TRUE, sizes |-> s] :
                s \in UNION {[1..n -> LevelSizes] : n \in 0..MaxLevels}}

\* line 31: chunk_sizes or settings.CHUNK_SIZES
effective_chunk_sizes(arg) ==
    IF arg.given /\ arg.sizes # <<>> THEN arg.sizes ELSE CHUNK_SIZES

\* DocumentChunker.__init__ (lines 30-37): the sizes go to
\* HierarchicalNodeParser.from_defaults as they are; it builds one splitter
\* per size.
DocumentChunker_init ==
    /\ ck.pc = "new"
    /\ ck' = [ck EXCEPT !.pc = "made",
                        !.chunk_sizes = effective_chunk_sizes(ck.arg),
                        !.parser_levels =
                            Len(effective_chunk_sizes(ck.arg))]
    /\ UNCHANGED <<chroma, files, sm, ing, engine, obs, mq, cn, rt, gs,
                   bt, en, wk, tr>>

\* DocumentChunker.create_nodes (lines 50-61): the parser builds a tree
\* with one level per splitter.
ck_create_nodes ==
    /\ ck.pc = "made"
    /\ ck' = [ck EXCEPT !.pc = "built", !.tree_levels = ck.parser_levels]
    /\ UNCHANGED <<chroma, files, sm, ing, engine, obs, mq, cn, rt, gs,
                   bt, en, wk, tr>>

InitChunker ==
    /\ ck \in {[pc |-> "new", arg |-> a, raised |-> "none",
                chunk_sizes |-> <<>>, parser_levels |-> 0,
                tree_levels |-> 0] : a \in ChunkSizeArgs}
    /\ chroma = [c \in CollectionNames |-> NoCollection]
    /\ files = [f \in Dirs \X CollectionNames |-> AbsentFile]
    /\ sm = [docstore_path |-> DOCSTORE_PATH]
    /\ ing = IdleIng /\ engine = NoEngine /\ obs = NoObs
    /\ mq = IdleMq /\ cn = IdleCn /\ rt = IdleRt /\ gs = IdleGs
    /\ wk = IdleWk /\ tr = IdleTr
    /\ bt = IdleBt /\ en = IdleEn

NextChunker == DocumentChunker_init \/ ck_create_nodes

SpecChunker == InitChunker /\ [][NextChunker]_vars

(***************************************************************************)
(* DocumentChunker.enrich_leaf_nodes: one enriched node per leaf, its text *)
(* the leaf's text behind the summaries of the leaf's ancestors.           *)
(***************************************************************************)
MaxEnrichLen == 4

\* The nodes enrich_leaf_nodes is given: any of these, in any order (a
\* list may lack the parent of one of its nodes).
EnrichPool ==
    {MkNode(1, "A", "R"), MkNode(1, "A", "P1"), MkNode(1, "A", "a1"),
     MkNode(1, "A", "a2"), MkNode(1, "B", "S"), MkNode(1, "B", "d1")}

EnrichLists ==
    {ns \in UNION {[1..n -> EnrichPool] : n \in 0..MaxEnrichLen} :
        \A i, j \in DOMAIN ns : i # j => ns[i] # ns[j]}

\* The summary of a parent: a text of its own, or the empty text.
SummaryText(id, kind) ==
    IF kind = "empty" THEN <<>>
    ELSE <<Part([R  |-> "summary of R", P1 |-> "summary of P1",
                 S  |-> "summary of S"][id[2]], 12)>>

\* The parent_summaries maps: a summary for any of the parents.
SummaryMaps ==
    LET parents == {n.node_id : n \in {m \in EnrichPool : IsParent(m)}}
        kinds == UNION {[D -> {"text", "empty"}] : D \in SUBSET parents}
    IN  {[id \in DOMAIN k |-> SummaryText(id, k[id])] : k \in kinds}

\* get_leaf_nodes of the node parser on a list
get_leaf_nodes_list(nodes) ==
    LET IsLeaf(n) == "CHILD" \notin n.relationships.keys
    IN  SelectSeq(nodes, IsLeaf)

\* lines 114-117
en_call ==
    /\ en.pc = "ready"
    /\ en' = [en EXCEPT !.pc = "loop",
                        !.leaf_nodes = get_leaf_nodes_list(en.nodes)]
    /\ UNCHANGED <<chroma, files, sm, ing, engine, obs, mq, cn, rt, gs,
                   bt, ck, wk, tr>>

\* lines 119-157: one turn of the loop over the leaves
en_step ==
    /\ en.pc = "loop"
    /\ en.k <= Len(en.leaf_nodes)
    /\ en' = [en EXCEPT
                !.k = @ + 1,
                !.enriched_nodes =
                    Append(@, enriched_node(en.nodes, en.parent_summaries,
                                            en.leaf_nodes[en.k]))]
    /\ UNCHANGED <<chroma, files, sm, ing, engine, obs, mq, cn, rt, gs,
                   bt, ck, wk, tr>>

\* lines 159-165
en_return ==
    /\ en.pc = "loop"
    /\ en.k > Len(en.leaf_nodes)
    /\ en' = [en EXCEPT !.pc = "done"]
    /\ UNCHANGED <<chroma, files, sm, ing, engine, obs, mq, cn, rt, gs,
                   bt, ck, wk, tr>>

InitEnrich ==
    /\ en \in {[pc |-> "ready", nodes |-> ns, parent_summaries |-> ps,
                leaf_nodes |-> <<>>, k |-> 1, enriched_nodes |-> <<>>] :
                  ns \in EnrichLists, ps \in SummaryMaps}
    /\ chroma = [c \in CollectionNames |-> NoCollection]
    /\ files = [f \in Dirs \X CollectionNames |-> AbsentFile]
    /\ sm = [docstore_path |-> DOCSTORE_PATH]
    /\ ing = IdleIng /\ engine = NoEngine /\ obs = NoObs
    /\ mq = IdleMq /\ cn = IdleCn /\ rt = IdleRt /\ gs = IdleGs
    /\ wk = IdleWk /\ tr = IdleTr
    /\ bt = IdleBt /\ ck = IdleCk

NextEnrich == en_call \/ en_step \/ en_return

SpecEnrich == InitEnrich /\ [][NextEnrich]_vars

(***************************************************************************)
(* enrich_leaf_nodes with the ancestor walk of lines 125-134 taken one     *)
(* turn at a time, on node lists whose parent links are arbitrary: a link  *)
(* may lead to a node of the list, to a node that is not in it ("gone"),   *)
(* or round in a circle.                                                   *)
(***************************************************************************)
MaxWalk == 4

WalkNames == <<"x", "y", "z">>

\* The parent links: for each node its parent, "none" or "gone".
WalkLinks == [Range(WalkNames) -> Range(WalkNames) \cup {"none", "gone"}]

WalkNode(par, n) ==
    LET IsChild(m) == par[m] = n IN
    [node_id       |-> <<1, n>>,
     text          |-> <<Part(n, 100)>>,
     metadata      |-> PageMetadata("A"),
     relationships |->
        Rel(IF par[n] = "none" THEN NoId ELSE <<1, par[n]>>,
            [i \in DOMAIN SelectSeq(WalkNames, IsChild) |->
                <<1, SelectSeq(WalkNames, IsChild)[i]>>])]

WalkList(par) == [i \in DOMAIN WalkNames |-> WalkNode(par, WalkNames[i])]

\* line 132: the walk goes on from the parent
next_current_stays(current, nodes, at) == current

next_current(current, nodes, at) == nodes[at]

\* lines 114-117
wk_call ==
    /\ wk.pc = "ready"
    /\ wk' = [wk EXCEPT !.pc = "next_leaf",
                        !.leaf_nodes = get_leaf_nodes_list(wk.nodes)]
    /\ UNCHANGED <<chroma, files, sm, ing, engine, obs, mq, cn, rt, gs,
                   bt, ck, en, tr>>

\* lines 119-122: the next leaf, with an empty chain
wk_leaf ==
    /\ wk.pc = "next_leaf"
    /\ wk.k <= Len(wk.leaf_nodes)
    /\ wk' = [wk EXCEPT !.pc = "walk", !.current = wk.leaf_nodes[wk.k],
                        !.chain = <<>>, !.visited = <<>>]
    /\ UNCHANGED <<chroma, files, sm, ing, engine, obs, mq, cn, rt, gs,
                   bt, ck, en, tr>>

\* lines 125-134: one turn of the while loop.  The walk of a list whose
\* links go round in a circle takes turns without end; the model follows
\* it for MaxWalk turns.
wk_turn ==
    /\ wk.pc = "walk"
    /\ HasParent(wk.current)
    /\ Len(wk.visited) < MaxWalk
    /\ LET parent_id == wk.current.relationships.parent
           parent == FindNode(wk.nodes, parent_id)
       IN  wk' = IF parent.found
                 THEN [wk EXCEPT
                         !.chain = chain_insert(@,
                             chain_entry(wk.parent_summaries, parent_id)),
                         !.visited = Append(@, parent_id),
                         !.current =
                             next_current(wk.current, wk.nodes, parent.at)]
                 ELSE [wk EXCEPT !.pc = "emit"]
    /\ UNCHANGED <<chroma, files, sm, ing, engine, obs, mq, cn, rt, gs,
                   bt, ck, en, tr>>

\* line 125: the node has no PARENT relationship
wk_top ==
    /\ wk.pc = "walk"
    /\ ~HasParent(wk.current)
    /\ wk' = [wk EXCEPT !.pc = "emit"]
    /\ UNCHANGED <<chroma, files, sm, ing, engine, obs, mq, cn, rt, gs,
                   bt, ck, en, tr>>

\* lines 136-157
wk_emit ==
    /\ wk.pc = "emit"
    /\ wk' = [wk EXCEPT
                !.pc = "next_leaf", !.k = @ + 1,
                !.enriched_nodes =
                    Append(@, [node_id |-> wk.leaf_nodes[wk.k].node_id,
                               text |-> enriched_content(
                                            wk.chain, wk.leaf_nodes[wk.k]),
                               hierarchy_depth |-> Len(wk.chain)])]
    /\ UNCHANGED <<chroma, files, sm, ing, engine, obs, mq, cn, rt, gs,
                   bt, ck, en, tr>>

\* lines 159-165
wk_return ==
    /\ wk.pc = "next_leaf"
    /\ wk.k > Len(wk.leaf_nodes)
    /\ wk' = [wk EXCEPT !.pc = "done"]
    /\ UNCHANGED <<chroma, files, sm, ing, engine, obs, mq, cn, rt, gs,
                   bt, ck, en, tr>>

WalkSummaries(nodes) ==
    {NoSummaries,
     [id \in {nodes[i].node_id : i \in DOMAIN nodes} |->
        <<Part("summary", 7)>>]}

InitWalk ==
    /\ wk \in {[pc |-> "ready", nodes |-> WalkList(par),
                parent_summaries |-> ps, leaf_nodes |-> <<>>, k |-> 1,
                current |-> WalkList(par)[1], chain |-> <<>>,
                visited |-> <<>>, enriched_nodes |-> <<>>] :
                  par \in WalkLinks,
                  ps \in WalkSummaries(WalkList([n \in Range(WalkNames)
                                                    |-> "none"]))}
    /\ chroma = [c \in CollectionNames |-> NoCollection]
    /\ files = [f \in Dirs \X CollectionNames |-> AbsentFile]
    /\ sm = [docstore_path |-> DOCSTORE_PATH]
    /\ ing = IdleIng /\ engine = NoEngine /\ obs = NoObs
    /\ mq = IdleMq /\ cn = IdleCn /\ rt = IdleRt /\ gs = IdleGs
    /\ bt = IdleBt /\ ck = IdleCk /\ en = IdleEn /\ tr = IdleTr

NextWalk ==
    wk_call \/ wk_leaf \/ wk_turn \/ wk_top \/ wk_emit \/ wk_return

\* The interpreter keeps running the loops: a step that can be taken is
\* taken.
SpecWalk == InitWalk /\ [][NextWalk]_vars /\ WF_vars(NextWalk)

(***************************************************************************)
(* DocumentChunker.create_nodes on the page documents of one PDF.  The     *)
(* HierarchicalNodeParser splits every document with the splitter of the   *)
(* first size, every chunk with the splitter of the next size, and so on;  *)
(* a chunk is the parent of the chunks it is split into, and the chunks of *)
(* the first size, which come from the documents themselves, have no       *)
(* parent.  Texts are measured in tokens; the overlap of neighbouring      *)
(* chunks is left out, it changes their number and not their links.       *)
(***************************************************************************)
MaxPages == 3

\* The number of tokens of a page.
PageTokens == {300, 1024, 2048, 5000}

\* The documents load_pdf returns for a PDF: one per page, at least one.
PageLists == UNION {[1..n -> PageTokens] : n \in 1..MaxPages}

\* The chunks a splitter of this size makes of a text: their lengths.
Pieces(tokens, size) ==
    LET n == (tokens + size - 1) \div size
    IN  [i \in 1..n |-> IF i < n THEN size ELSE tokens - (n - 1) * size]

\* The ids of the chunks a node is split into, as its CHILD relationship
\* lists them.
child_ids_short(id, n) == [i \in 1..(n - 1) |-> Append(id, i)]

child_ids(id, n) == [i \in 1..n |-> Append(id, i)]

\* The node of a chunk and the nodes below it.
RECURSIVE Subtree(_, _, _, _)
Subtree(id, tokens, level, sizes) ==
    LET below == IF level < Len(sizes)
                 THEN Pieces(tokens, sizes[level + 1]) ELSE <<>>
    IN  {[node_id    |-> id,
          level      |-> level,
          tokens     |-> tokens,
          has_parent |-> level > 1,
          parent     |-> IF level > 1 THEN SubSeq(id, 1, Len(id) - 1)
                         ELSE <<>>,
          children   |-> child_ids(id, Len(below))]}
        \cup UNION {Subtree(Append(id, i), below[i], level + 1, sizes) :
                      i \in DOMAIN below}

\* parser.get_nodes_from_documents (line 52)
get_nodes_from_documents(pages, sizes) ==
    UNION {UNION {Subtree(<<p, i>>, Pieces(pages[p], sizes[1])[i], 1, sizes) :
                    i \in DOMAIN Pieces(pages[p], sizes[1])} :
             p \in DOMAIN pages}

\* DocumentChunker.create_nodes (lines 50-61)
tr_create_nodes ==
    /\ tr.pc = "ready"
    /\ LET nodes == get_nodes_from_documents(tr.documents, CHUNK_SIZES)
           leaf_count == Cardinality({n \in nodes : n.children = <<>>})
       IN  tr' = [tr EXCEPT !.pc = "done", !.nodes = nodes,
                            !.leaf_count = leaf_count,
                            !.parent_count = Cardinality(nodes) - leaf_count]
    /\ UNCHANGED <<chroma, files, sm, ing, engine, obs, mq, cn, rt, gs,
                   bt, ck, en, wk>>

InitTree ==
    /\ tr \in {[pc |-> "ready", documents |-> d, nodes |-> {},
                leaf_count |-> 0, parent_count |-> 0] : d \in PageLists}
    /\ chroma = [c \in CollectionNames |-> NoCollection]
    /\ files = [f \in Dirs \X CollectionNames |-> AbsentFile]
    /\ sm = [docstore_path |-> DOCSTORE_PATH]
    /\ ing = IdleIng /\ engine = NoEngine /\ obs = NoObs
    /\ mq = IdleMq /\ cn = IdleCn /\ rt = IdleRt /\ gs = IdleGs
    /\ bt = IdleBt /\ ck = IdleCk /\ en = IdleEn /\ wk = IdleWk

NextTree == tr_create_nodes

SpecTree == InitTree /\ [][NextTree]_vars

(***************************************************************************)
(* Properties of retrieval (SpecQuery).                                    *)
(***************************************************************************)
QueryAnswered == obs.op = "query" /\ obs.outcome = "ok"

\* The parents of the store whose children are all leaves of the store.
LeafParents(store) ==
    {p \in store :
        /\ ChildIds(p) # {}
        /\ \A k \in ChildIds(p) :
              k \in Ids(store) /\ ChildIds(NodeOf(store, k)) = {}}

PromotedAbove(store, id, units) == Ancestors(store, id) \cap units # {}

C3_DegradedMode ==
    /\ (engine.made /\ ~engine.has_docstore) => ~engine.use_auto_merging
    /\ (QueryAnswered /\ ~engine.has_docstore) =>
          /\ obs.used_retriever = "standard"
          /\ obs.units = obs.retrieved
          /\ obs.units \subseteq
                {e.node_id : e \in chroma[obs.name].entries}
          /\ \A u \in obs.units, e \in chroma[obs.name].entries :
                e.parent # u

\* A collection without a docstore file where the engine reads it, an
\* engine on it, and a query that returned several leaves.
C3_Witness ==
    /\ files[qe_get_docstore_path("c1")].state = "absent"
    /\ engine.made /\ engine.collection_name = "c1"
    /\ ~engine.use_auto_merging
    /\ QueryAnswered
    /\ Cardinality(obs.units) >= 2

(***************************************************************************)
(* Properties of storage (Spec).                                           *)
(***************************************************************************)
Returned(value) == ing.pc = "idle" /\ ing.ret = value

\* C9: re-ingestion replaces the whole collection.  When save_collection
\* has returned True on a name that held a collection, the vector index of
\* the name holds exactly the enriched leaves of this run and the docstore
\* file of the name holds exactly the nodes of this run.
C9_ReingestionReplacesCollection ==
    (Returned("True") /\ ing.replaced) =>
        /\ chroma[ing.name].exists
        /\ {e.node_id : e \in chroma[ing.name].entries} = Ids(enriched_nodes)
        /\ files[get_docstore_path(ing.name)] = OkFile(DocsDict(all_nodes))

\* C10: ingestion and query exclude each other per collection.  No
\* operation of a query engine on a collection in its rebuild window finds
\* the collection missing, its index empty, or a retrieved node that the
\* docstore does not hold.
C10_QueryNeverSeesRebuild ==
    obs.window =>
        /\ obs.outcome = "ok"
        /\ obs.op = "query" => obs.retrieved # {}

(***************************************************************************)
(* Properties of the multi-collection fan-out (SpecMulti).                 *)
(***************************************************************************)
\* C4: the mapping query returns has exactly one entry per configured
\* collection, every collection was queried whatever the others raised, and
\* the entry of a collection whose query raised is "Error: " followed by the
\* text of the exception.
C4_OneEntryPerCollection ==
    mq.pc \in {"best", "done"} =>
        /\ DOMAIN mq.results = Range(mq.engines)
        /\ mq.queried = mq.engines
        /\ \A n \in DOMAIN mq.raised :
              mq.results[n] = ErrorPrefix \o mq.raised[n]

\* Three collections, the second of which raised, the others answered.
C4_Witness ==
    /\ mq.pc = "done" /\ mq.op = "query"
    /\ Len(mq.engines) = 3
    /\ DOMAIN mq.raised = {mq.engines[2]}
    /\ mq.results[mq.engines[3]] \in Answers

\* C5: query_best returns a collection together with its entry of the
\* mapping, and no entry of the mapping is longer than that one.
C5_BestIsLongest ==
    (mq.pc = "done" /\ mq.op = "query_best") =>
        /\ mq.best[1] \in DOMAIN mq.results
        /\ mq.best[2] = mq.results[mq.best[1]]
        /\ \A n \in DOMAIN mq.results :
              Len(mq.results[n]) <= Len(mq.best[2])

\* The longest entry is the last collection's, strictly.
C5_Witness ==
    /\ mq.pc = "done" /\ mq.op = "query_best"
    /\ Len(mq.engines) = 3
    /\ mq.best[1] = mq.engines[3]
    /\ \A i \in 1..2 : Len(mq.results[mq.engines[i]]) < Len(mq.best[2])

(***************************************************************************)
(* Properties of the collection name (SpecName).                           *)
(***************************************************************************)
\* C6: the collection name is the stem of the filename, lower-cased, with
\* each character that is not alphanumeric replaced by one "_": it is as
\* long as the stem, and two calls on the same filename agree.
C6_CollectionNameDerivation ==
    cn.pc \in {"done", "twice"} =>
        LET name == stem(cn.pdf_path) IN
        /\ Len(cn.result) = Len(name)
        /\ \A i \in DOMAIN name :
              i \in DOMAIN cn.result /\
              IF isalnum(name[i])
              THEN <<cn.result[i]>> = lower_char(name[i])
              ELSE cn.result[i] = "_"
        /\ cn.pc = "twice" => cn.second = cn.result

(***************************************************************************)
(* Properties of the docstore round trip (SpecRT).                         *)
(***************************************************************************)
\* C7: after save_docstore has returned True, load_docstore yields a
\* docstore whose nodes are the saved ones: the same ids, each with the
\* same text, metadata and parent and child links.
C7_DocstoreRoundTrip ==
    (rt.pc = "loaded" /\ rt.saved = "True") =>
        /\ rt.loaded.found
        /\ rt.loaded.nodes = rt.docstore
        /\ \A n \in rt.docstore : \E l \in rt.loaded.nodes :
              /\ l.node_id = n.node_id
              /\ l.text = n.text
              /\ l.metadata = n.metadata
              /\ ParentId(l) = ParentId(n)
              /\ l.relationships.children = n.relationships.children

\* A root, a node with both a parent and children, and a leaf went through
\* the cycle, over the file of an earlier run.
C7_Witness ==
    /\ rt.pc = "loaded" /\ rt.saved = "True"
    /\ Ids(rt.docstore) = {<<1, "R">>, <<1, "P2">>, <<1, "b3">>}
    /\ rt.loaded.found
    /\ Cardinality(rt.loaded.nodes) = 3

(***************************************************************************)
(* Properties of the summarizer (SpecSum).                                 *)
(***************************************************************************)
\* C8: the map generate_parent_summaries returns has an entry for every
\* node of the list that has children and for no other node, whichever
\* completion calls failed.
C8_SummaryForEveryParent ==
    gs.pc = "done" =>
        /\ DOMAIN gs.summaries =
              {n.node_id : n \in {m \in Range(gs.nodes) : ChildIds(m) # {}}}
        /\ \A n \in Range(gs.nodes) :
              ChildIds(n) = {} => n.node_id \notin DOMAIN gs.summaries

\* A list of a leaf and two parents, the completion of one of which failed.
C8_Witness ==
    /\ gs.pc = "done"
    /\ Len(gs.nodes) = 3 /\ Len(gs.parent_nodes) = 2
    /\ Cardinality(gs.failed) = 1
    /\ Cardinality(DOMAIN gs.summaries) = 2

\* A node is covered by a retrieval when it was retrieved or more than half
\* of its children are covered.
RECURSIVE Covered(_, _, _)
Covered(store, retrieved, id) ==
    \/ id \in retrieved
    \/ /\ id \in Ids(store)
       /\ LET kids == ChildIds(NodeOf(store, id))
          IN  /\ kids # {}
              /\ MeetsThreshold(
                     Cardinality({k \in kids : Covered(store, retrieved, k)}),
                     Cardinality(kids))

\* C17: recursive promotion.  The units of an auto-merging retrieval are
\* the covered nodes with no covered ancestor: a parent with more than half
\* of its children retrieved or promoted is promoted in their place, at
\* every level, in the same retrieval.
C17_RecursivePromotion ==
    (QueryAnswered /\ obs.used_retriever = "auto_merging") =>
        obs.units =
            {u \in Ids(engine.docstore) :
                /\ Covered(engine.docstore, obs.retrieved, u)
                /\ \A a \in Ancestors(engine.docstore, u) :
                      ~Covered(engine.docstore, obs.retrieved, a)}

\* Both children of P1 and two of the three of P2 retrieved: P1 and P2 are
\* promoted, and being two of the three children of R they promote R.
C17_Witness ==
    /\ QueryAnswered /\ obs.used_retriever = "auto_merging"
    /\ obs.retrieved = {<<1, "a1">>, <<1, "a2">>, <<1, "b1">>, <<1, "b2">>}
    /\ obs.units = {<<1, "R">>}

\* C14: constructing a QueryEngine on a collection that is not in the
\* vector database raises an error that names the collection and lists the
\* collections there are, and no engine is made.
C14_MissingCollectionError ==
    (obs.op = "init" /\ ~chroma[obs.name].exists) =>
        /\ obs.outcome = "CollectionNotFound"
        /\ obs.message.collection = obs.name
        /\ obs.message.available = list_collections
        /\ ~engine.made

C14_Witness ==
    /\ obs.op = "init" /\ obs.name = "c2"
    /\ obs.outcome = "CollectionNotFound"
    /\ obs.message = [collection |-> "c2", available |-> {"c1"}]

\* C18: when the completion call fails for a parent, its summary is the
\* first 150 characters of its own text followed by "...", and the summary
\* of every other parent, handled before or after it, is the stripped text
\* its own completion call returned.
C18_FailureIsolation ==
    gs.pc = "done" =>
        \A i \in DOMAIN gs.parent_nodes :
            LET n == gs.parent_nodes[i] IN
            /\ n.node_id \in DOMAIN gs.summaries
            /\ gs.summaries[n.node_id] =
                  IF n.node_id \in gs.failed
                  THEN Prefix(n.text, FALLBACK_CHARS) \o <<Ellipsis>>
                  ELSE strip(gs.completed[n.node_id])

\* Three parents; the call for the second one, S with its 300 characters,
\* failed and the calls before and after it returned.
C18_Witness ==
    /\ gs.pc = "done"
    /\ Len(gs.parent_nodes) = 3
    /\ gs.parent_nodes[2].node_id = <<1, "S">>
    /\ gs.failed = {<<1, "S">>}
    /\ gs.summaries[<<1, "S">>] = <<Part("S", 150), Ellipsis>>
    /\ gs.completed[gs.parent_nodes[1].node_id] =
          <<Space, Part("summary one", 11), Space>>
    /\ gs.summaries[gs.parent_nodes[1].node_id] = <<Part("summary one", 11)>>
    /\ gs.summaries[gs.parent_nodes[3].node_id] = <<Part("summary two", 11)>>

(***************************************************************************)
(* Properties of the batch run (SpecBatch).                                *)
(***************************************************************************)
\* The positions of the listing whose file loads.
Loadable == {i \in DOMAIN bt.kinds : bt.kinds[i] = "pages"}

BatchRan == bt.pc = "done" /\ bt.config_ok /\ bt.kinds # <<>>

\* C11 as stated: a PDF that fails at load or at processing is skipped and
\* counted in the failed count of the final summary, and every other PDF
\* is processed.
C11_FailedCountsEveryFailure ==
    BatchRan =>
        /\ bt.failed =
              (Len(bt.kinds) - Cardinality(Loadable))
                  + Cardinality(bt.raised_at)
        /\ bt.attempted = [k \in 1..Len(bt.results) |->
                              bt.results[k].pdf_path]

\* C11 amended: a PDF that fails at load is skipped and shows in the
\* loaded/total count of load_all_pdfs, a PDF that fails at processing is
\* counted in the failed count of the final summary, and every other PDF
\* is loaded and processed; the summary is printed whenever a PDF loaded.
C11_BatchIsolation ==
    BatchRan =>
        /\ Len(bt.calls) = Len(bt.kinds)
        /\ {r.pdf_path : r \in Range(bt.results)} =
              {PdfName(i) : i \in Loadable}
        /\ Len(bt.results) + bt.load_errors = Len(bt.pdf_files)
        /\ bt.attempted = [k \in 1..Len(bt.results) |->
                              bt.results[k].pdf_path]
        /\ bt.failed = Cardinality(bt.raised_at)
        /\ bt.successful + bt.failed = Len(bt.results)
        /\ bt.summary <=> Loadable # {}
        /\ bt.exit = IF Loadable # {} /\ bt.failed = 0 THEN 0 ELSE 1

\* A run in which one PDF failed to load, one failed at processing and one
\* went through.
C11_Witness ==
    /\ bt.pc = "done" /\ bt.summary
    /\ bt.load_errors = 1 /\ bt.failed = 1 /\ bt.successful = 1
    /\ bt.kinds[1] # "pages"
    /\ bt.attempted[1] \in bt.raised_at

\* C13: load_pdf raises FileNotFoundError on a path that does not exist and
\* ValueError when the reader returns no page, and then returns neither
\* documents nor a collection name.
C13_LoadPdfErrors ==
    \A k \in DOMAIN bt.calls :
        LET call == bt.calls[k] IN
        /\ call.kind = "missing" =>
              call.result.raised = "FileNotFoundError"
        /\ call.kind = "empty" => call.result.raised = "ValueError"
        /\ call.kind \in {"missing", "empty"} =>
              /\ call.result.documents = <<>>
              /\ call.result.collection_name = <<>>
        /\ call.kind = "pages" =>
              /\ call.result.raised = "none"
              /\ Len(call.result.documents) = PagesOfPdf

C13_Witness ==
    /\ \E k \in DOMAIN bt.calls : bt.calls[k].kind = "missing"
    /\ \E k \in DOMAIN bt.calls : bt.calls[k].kind = "empty"

(***************************************************************************)
(* Properties of the chunker's construction (SpecChunker).                 *)
(***************************************************************************)
StrictlyDecreasing(s) == \A i \in 1..(Len(s) - 1) : s[i] > s[i + 1]

\* C12: a chunker given level sizes that are not strictly decreasing is
\* rejected with an InvalidConfiguration error, and no tree is built.
C12_RejectsUnorderedSizes ==
    (ck.pc # "new" /\ ~StrictlyDecreasing(effective_chunk_sizes(ck.arg)))
        => /\ ck.raised = "InvalidConfiguration"
           /\ ck.tree_levels = 0

(***************************************************************************)
(* Properties of the enrichment of the leaves (SpecEnrich).                *)
(***************************************************************************)
\* The ancestors of a node that the list resolves, the root-most first: the
\* parent is in the list, and so on upwards until a parent is not.
RECURSIVE UpPath(_, _)
UpPath(nodes, n) ==
    IF ~HasParent(n) \/ ~FindNode(nodes, ParentId(n)).found THEN <<>>
    ELSE LET p == nodes[FindNode(nodes, ParentId(n)).at]
         IN  UpPath(nodes, p) \o <<p>>

\* The summaries of those ancestors that have one, in that order.
Breadcrumb(nodes, parent_summaries, leaf) ==
    LET HasSummary(a) == a.node_id \in DOMAIN parent_summaries
        with == SelectSeq(UpPath(nodes, leaf), HasSummary)
    IN  [i \in DOMAIN with |-> parent_summaries[with[i].node_id]]

\* The enriched nodes made so far, each with the leaf it was made from.
Enriched ==
    {[e |-> en.enriched_nodes[k], leaf |-> en.leaf_nodes[k]] :
        k \in DOMAIN en.enriched_nodes}

\* C15: the text of an enriched leaf with hierarchy_depth > 0 is the
\* bracketed breadcrumb followed by the raw text of the leaf; when no
\* ancestor of the leaf has a summary the text is the raw text, the depth 0
\* and has_context false.
C15_IndexedLeafText ==
    \A x \in Enriched :
        LET t == x.e.text
            raw == x.leaf.text
        IN  /\ x.e.metadata.hierarchy_depth > 0 =>
                 /\ Len(t) >= Len(raw) + 2
                 /\ t[1] = ContextOpen
                 /\ t[Len(t) - Len(raw)] = ContextClose
                 /\ SubSeq(t, Len(t) - Len(raw) + 1, Len(t)) = raw
            /\ (Ancestors(EnrichPool, x.leaf.node_id)
                    \cap DOMAIN en.parent_summaries = {}) =>
                 /\ t = raw
                 /\ x.e.metadata.hierarchy_depth = 0
                 /\ x.e.metadata.has_context = FALSE

\* Two leaves enriched, one with a breadcrumb and one without.
C15_Witness ==
    /\ en.pc = "done"
    /\ \E x \in Enriched :
          x.e.metadata.hierarchy_depth > 0 /\ x.e.text # x.leaf.text
    /\ \E x \in Enriched :
          /\ Ancestors(EnrichPool, x.leaf.node_id)
                \cap DOMAIN en.parent_summaries = {}
          /\ FindNode(en.nodes, ParentId(x.leaf)).found
          /\ x.e.text = x.leaf.text

\* C16: enrich_leaf_nodes returns one node per leaf of its input and none
\* for the other nodes, in the order of the leaves, each with the id of
\* its leaf.
C16_LeafIdentity ==
    en.pc = "done" =>
        LET IsLeafNode(n) == ChildIds(n) = {}
            leaves == SelectSeq(en.nodes, IsLeafNode)
        IN  [k \in DOMAIN en.enriched_nodes |->
                en.enriched_nodes[k].node_id]
                = [k \in DOMAIN leaves |-> leaves[k].node_id]

\* A list of two leaves with a parent between them.
C16_Witness ==
    /\ en.pc = "done"
    /\ Len(en.nodes) = 3 /\ Len(en.enriched_nodes) = 2
    /\ IsParent(en.nodes[2])
    /\ en.enriched_nodes[1].node_id # en.enriched_nodes[2].node_id

\* C19: the breadcrumb of a leaf lists the summaries of its ancestors from
\* the root-most one to the direct parent, joined by the separator, and
\* stands before the text of the leaf.
C19_BreadcrumbOrder ==
    \A x \in Enriched :
        LET crumbs == Breadcrumb(en.nodes, en.parent_summaries, x.leaf)
        IN  crumbs # <<>> =>
                x.e.text = <<ContextOpen>> \o join(crumbs)
                              \o <<ContextClose>> \o x.leaf.text

\* The leaf a1 under P1 under R, both with a summary.
C19_Witness ==
    \E x \in Enriched :
        /\ x.leaf.node_id = <<1, "a1">>
        /\ x.e.text = <<ContextOpen, Part("summary of R", 12), Arrow,
                        Part("summary of P1", 12), ContextClose>>
                          \o x.leaf.text

\* C20: hierarchy_depth is the number of summaries placed in the
\* breadcrumb (those of the ancestors the list resolves and the map has),
\* not the depth of the leaf in the tree, and has_context is true exactly
\* when it is positive.
C20_DepthCountsBreadcrumb ==
    \A x \in Enriched :
        /\ x.e.metadata.hierarchy_depth =
              Len(Breadcrumb(en.nodes, en.parent_summaries, x.leaf))
        /\ x.e.metadata.has_context <=> x.e.metadata.hierarchy_depth > 0

\* A leaf two levels down whose breadcrumb has one entry.
C20_Witness ==
    \E x \in Enriched :
        /\ Len(UpPath(en.nodes, x.leaf)) = 2
        /\ x.e.metadata.hierarchy_depth = 1
        /\ x.e.metadata.has_context

\* The leaves whose chain of ancestors is broken: a parent on it is not in
\* the list, or an ancestor the list resolves has no summary.
BrokenChain(x) ==
    \/ Len(UpPath(en.nodes, x.leaf))
          < Cardinality(Ancestors(EnrichPool, x.leaf.node_id))
    \/ \E i \in DOMAIN UpPath(en.nodes, x.leaf) :
          UpPath(en.nodes, x.leaf)[i].node_id
              \notin DOMAIN en.parent_summaries

\* C21: a leaf with a broken chain of ancestors is still emitted, and its
\* breadcrumb holds exactly the summaries of the ancestors that resolved
\* and have a summary (none: the text is the raw text).
C21_BrokenChainShortensBreadcrumb ==
    /\ en.pc = "done" => Len(en.enriched_nodes) = Len(en.leaf_nodes)
    /\ \A x \in Enriched :
          BrokenChain(x) =>
              LET crumbs == Breadcrumb(en.nodes, en.parent_summaries, x.leaf)
              IN  /\ x.e.node_id = x.leaf.node_id
                  /\ x.e.text =
                        IF crumbs = <<>> THEN x.leaf.text
                        ELSE <<ContextOpen>> \o join(crumbs)
                                \o <<ContextClose>> \o x.leaf.text

\* The leaf a1 with P1 in the list and R not: the breadcrumb is the summary
\* of P1 alone, although the map has one for R.
C21_Witness ==
    /\ en.pc = "done"
    /\ <<1, "R">> \in DOMAIN en.parent_summaries
    /\ \E x \in Enriched :
          /\ x.leaf.node_id = <<1, "a1">>
          /\ BrokenChain(x)
          /\ ~FindNode(en.nodes, <<1, "R">>).found
          /\ x.e.text = <<ContextOpen, Part("summary of P1", 12),
                          ContextClose>> \o x.leaf.text

(***************************************************************************)
(* Properties of the ancestor walk (SpecWalk).                             *)
(***************************************************************************)
\* The nodes reached from a node by n parent links or fewer.
RECURSIVE Above(_, _, _)
Above(nodes, id, n) ==
    IF n = 0 \/ ~FindNode(nodes, id).found
       \/ ~HasParent(nodes[FindNode(nodes, id).at])
    THEN {}
    ELSE LET p == ParentId(nodes[FindNode(nodes, id).at])
         IN  {p} \cup Above(nodes, p, n - 1)

\* No node is above itself.
AcyclicLinks(nodes) ==
    \A i \in DOMAIN nodes :
        nodes[i].node_id \notin Above(nodes, nodes[i].node_id, Len(nodes))

NoRepeat(s) == \A i, j \in DOMAIN s : i # j => s[i] # s[j]

\* C29: on a node list with acyclic parent links the walk of a leaf visits
\* no ancestor twice and ends at a node without a parent link or with a
\* parent that is not in the list, and the enrichment of the whole list
\* of leaves completes.
C29_WalkTerminates ==
    /\ [](AcyclicLinks(wk.nodes) =>
            /\ NoRepeat(wk.visited)
            /\ wk.pc = "emit" =>
                  \/ ~HasParent(wk.current)
                  \/ ~FindNode(wk.nodes, ParentId(wk.current)).found)
    /\ (wk.pc = "ready" /\ AcyclicLinks(wk.nodes))
          ~> (wk.pc = "done"
                /\ Len(wk.enriched_nodes) = Len(wk.leaf_nodes))

\* The list x -> y -> z enriched: the walk of the leaf x went through y
\* and z.
C29_Witness ==
    /\ wk.pc = "done"
    /\ AcyclicLinks(wk.nodes)
    /\ wk.visited = << <<1, "y">>, <<1, "z">> >>
    /\ Len(wk.enriched_nodes) = 1

(***************************************************************************)
(* Properties of the chunker output (SpecTree).                            *)
(***************************************************************************)
RECURSIVE SumOver(_, _)
SumOver(f, S) ==
    IF S = {} THEN 0
    ELSE LET x == CHOOSE y \in S : TRUE
         IN  f[x] + SumOver(f, S \ {x})

\* The sum of the children counts over the nodes.
ChildrenCount(nodes) ==
    SumOver([n \in nodes |-> Len(n.children)], nodes)

Roots(nodes) == {n \in nodes : ~n.has_parent}

\* C22 as stated: the output for a PDF is one tree: no more leaves than
\* segments, and the children counts add up to the segments minus one.
C22_SingleTree ==
    tr.pc = "done" =>
        /\ tr.leaf_count <= Cardinality(tr.nodes)
        /\ ChildrenCount(tr.nodes) = Cardinality(tr.nodes) - 1

\* C22 amended: the output for a PDF is a forest with at least one root
\* per page: no more leaves than segments, the children counts add up to
\* the segments minus the roots, and every segment that is not a root is
\* listed as a child by exactly one segment, its parent.
C22_Forest ==
    tr.pc = "done" =>
        /\ tr.leaf_count <= Cardinality(tr.nodes)
        /\ Cardinality(Roots(tr.nodes)) >= Len(tr.documents)
        /\ ChildrenCount(tr.nodes)
              = Cardinality(tr.nodes) - Cardinality(Roots(tr.nodes))
        /\ \A n \in tr.nodes :
              LET listing == {p \in tr.nodes :
                                n.node_id \in Range(p.children)}
              IN  IF n.has_parent
                  THEN /\ Cardinality(listing) = 1
                       /\ \A p \in listing : p.node_id = n.parent
                  ELSE listing = {}

\* A PDF of two pages, one of them longer than the first chunk size: three
\* roots.
C22_Witness ==
    /\ tr.pc = "done"
    /\ tr.documents = <<300, 5000>>
    /\ Cardinality(Roots(tr.nodes)) = 3
    /\ Cardinality(tr.nodes) = 20
    /\ ChildrenCount(tr.nodes) = 17

(***************************************************************************)
(* Properties of the stored and the indexed text (Spec).                   *)
(***************************************************************************)
\* The node has the text and the metadata the parser gave its segment.
RawSegment(n) ==
    \E d \in Docs :
        /\ n.node_id[2] \in Locals(d)
        /\ n.text = MkNode(n.node_id[1], d, n.node_id[2]).text
        /\ n.metadata = PageMetadata(d)

\* C23: stored text stays raw: every segment in a docstore file written by
\* save_collection has the text and metadata the parser gave it, although
\* enrich_leaf_nodes ran on the segments before; the text behind the
\* breadcrumb is only in the index entry of the leaf.
C23_StoredTextStaysRaw ==
    \A f \in DOMAIN files :
        files[f].state = "ok" =>
            \A n \in NodesOfDict(files[f].docs) :
                /\ RawSegment(n)
                /\ \A c \in CollectionNames : \A e \in chroma[c].entries :
                      e.node_id = n.node_id =>
                          /\ e.text # n.text
                          /\ e.text[1] = ContextOpen
                          /\ <<e.text[Len(e.text)]>> = n.text

\* Document A has been saved: leaf a1 is indexed behind the summaries of R
\* and P1 and stored with its own text.
C23_Witness ==
    /\ ing.ret = "True"
    /\ ing.doc = "A"
    /\ files[get_docstore_path(ing.name)].state = "ok"
    /\ \E n \in NodesOfDict(files[get_docstore_path(ing.name)].docs) :
          /\ n.node_id = <<ing.run, "a1">>
          /\ n.text = <<Part("a1", 100)>>
    /\ \E e \in chroma[ing.name].entries :
          /\ e.node_id = <<ing.run, "a1">>
          /\ e.text = <<ContextOpen, Part("R", 150), Ellipsis, Arrow,
                        Part("P1", 140), Ellipsis, ContextClose,
                        Part("a1", 100)>>


\* C24: whenever save_collection has returned True for a collection, the
\* docstore file of the collection is written completely and holds every
\* segment of all_nodes.
C24_TrueMeansDocstorePersisted ==
    Returned("True") =>
        /\ files[get_docstore_path(ing.name)].state = "ok"
        /\ Ids(all_nodes)
              \subseteq Ids(NodesOfDict(files[get_docstore_path(ing.name)].docs))


\* C25: writer and reader agree on the place of the docstore.  When
\* save_collection of a StorageManager with the default docstore directory
\* has returned True for a collection, a QueryEngine made for the collection
\* with auto-merging requested has the docstore and keeps auto-merging on.
C25_ReaderFindsDocstore ==
    [][\A c \in CollectionNames :
          (/\ sm.docstore_path = DOCSTORE_PATH
           /\ Returned("True")
           /\ ing.name = c
           /\ files[get_docstore_path(c)].state = "ok"
           /\ QueryEngine_init(c, TRUE))
          => (/\ engine'.made
              /\ engine'.has_docstore
              /\ engine'.use_auto_merging)]_vars


\* C27: query_best never selects a failed collection.  When the query of at
\* least one collection succeeded, the pair query_best returns names a
\* collection whose query succeeded, with the answer of that collection.
C27_BestIsNeverAnError ==
    (/\ mq.pc = "done" /\ mq.op = "query_best"
     /\ \E n \in Range(mq.engines) : n \notin DOMAIN mq.raised) =>
        /\ mq.best[1] \in Range(mq.engines)
        /\ mq.best[1] \notin DOMAIN mq.raised
        /\ mq.best[2] = mq.results[mq.best[1]]


\* C28: a failed save_collection leaves the stored state as it was.  When
\* save_collection has returned False for a name that held a collection,
\* the collection and the docstore file of the name are as they were before
\* the call.
C28_FailedSaveChangesNothing ==
    (Returned("False") /\ ing.before.collection.exists) =>
        /\ chroma[ing.name] = ing.before.collection
        /\ files[get_docstore_path(ing.name)] = ing.before.file


====
